---- MODULE Spec2Model ----
(***************************************************************************)
(* A model of the Kuzzle probe listener plugin (lib/index.js): probe       *)
(* validation, hook table construction, the connection to the KDC and the  *)
(* dispatch of measures.                                                   *)
(***************************************************************************)
EXTENDS Integers, Sequences, FiniteSets, TLC

(***************************************************************************)
(* JavaScript values.  Every value is a record [k, v] so that values of    *)
(* different JavaScript types stay comparable: k is the kind of value and  *)
(* v its content (the string, or the elements of the array).               *)
(***************************************************************************)
\* undefined: a field that is not there
Absent == [k |-> "absent", v |-> <<>>]

\* a falsy value that is not undefined: 0, false, '' or null
Falsy == [k |-> "falsy", v |-> <<>>]

\* a non-empty string
Text(s) == [k |-> "string", v |-> <<s>>]

\* an array of non-empty strings
List(s) == [k |-> "list", v |-> s]

\* JavaScript truthiness: strings here are non-empty, and every array is truthy
Truthy(x) == x.k \in {"string", "list"}

\* Array.isArray
IsArray(x) == x.k = "list"

Range(s) == {s[i] : i \in 1..Len(s)}

(***************************************************************************)
(* Bounds of the model.                                                    *)
(***************************************************************************)
\* most probes in one probe mapping
MaxProbes == 3

(***************************************************************************)
(* Events and probe types.                                                 *)
(***************************************************************************)
KuzzleStart == "core:kuzzleStart"

StructuralEvents ==
    <<"realtime:beforePublish", "document:beforeCreate", "document:beforeCreateOrReplace">>

AllEvents == {"a", "b", "c", KuzzleStart} \cup Range(StructuralEvents)

SupportedTypes == <<"counter", "monitor", "watcher", "sampler">>

(***************************************************************************)
(* Probe declarations.                                                     *)
(***************************************************************************)
Decl(type, hooks, increasers, decreasers, index, collection) ==
    [type |-> type, hooks |-> hooks, increasers |-> increasers,
     decreasers |-> decreasers, index |-> index, collection |-> collection,
     name |-> Absent]

MonitorDecl(hooks, increasers) ==
    Decl(Text("monitor"), hooks, increasers, Absent, Absent, Absent)

CounterDecl(increasers, decreasers, hooks) ==
    Decl(Text("counter"), hooks, increasers, decreasers, Absent, Absent)

DataDecl(type, index, collection) ==
    Decl(Text(type), Absent, Absent, Absent, index, collection)

\* the keys of a probe mapping, in the order Object.keys returns them
ProbeNames == <<"p1", "p2", "p3", "p4", "p5", "p6">>

\* a probe mapping: its entries in iteration order
ToMapping(decls) ==
    [i \in 1..Len(decls) |-> [key |-> ProbeNames[i], decl |-> decls[i]]]

(***************************************************************************)
(* _configureProbes                                                        *)
(***************************************************************************)
NoDefect == "none"

\* _.intersection(a, b): a value that is not an array counts as empty
Intersection(a, b) ==
    IF IsArray(a) /\ IsArray(b) THEN Range(a.v) \cap Range(b.v) ELSE {}

IsSupported(type) ==
    type.k = "string" /\ type.v[1] \in Range(SupportedTypes)

IsType(probe, t) == probe.type = Text(t)

\* the counter check skips the test of the common events
CheckProbeNoIntersection(probe) ==
    IF ~Truthy(probe.type) THEN "missing type"
    ELSE IF ~IsSupported(probe.type) THEN "unsupported type"
    ELSE IF IsType(probe, "monitor") /\ (~Truthy(probe.hooks) \/ ~IsArray(probe.hooks))
        THEN "missing hooks"
    ELSE IF IsType(probe, "counter") /\ ~Truthy(probe.increasers) /\ ~Truthy(probe.decreasers)
        THEN "missing increasers or decreasers"
    ELSE IF IsType(probe, "counter") /\ Truthy(probe.increasers) /\ ~IsArray(probe.increasers)
        THEN "increasers must be an array"
    ELSE IF IsType(probe, "counter") /\ Truthy(probe.decreasers) /\ ~IsArray(probe.decreasers)
        THEN "decreasers must be an array"
    ELSE IF (IsType(probe, "watcher") \/ IsType(probe, "sampler"))
            /\ (~Truthy(probe.index) \/ ~Truthy(probe.collection))
        THEN "missing index or collection"
    ELSE NoDefect

\* the checks of one probe, in the order of the code: the first that fails
\* is the error thrown
CheckProbe(probe) ==
    IF ~Truthy(probe.type) THEN "missing type"
    ELSE IF ~IsSupported(probe.type) THEN "unsupported type"
    ELSE IF IsType(probe, "monitor") /\ (~Truthy(probe.hooks) \/ ~IsArray(probe.hooks))
        THEN "missing hooks"
    ELSE IF IsType(probe, "counter") /\ ~Truthy(probe.increasers) /\ ~Truthy(probe.decreasers)
        THEN "missing increasers or decreasers"
    ELSE IF IsType(probe, "counter") /\ Truthy(probe.increasers) /\ ~IsArray(probe.increasers)
        THEN "increasers must be an array"
    ELSE IF IsType(probe, "counter") /\ Truthy(probe.decreasers) /\ ~IsArray(probe.decreasers)
        THEN "decreasers must be an array"
    ELSE IF IsType(probe, "counter")
            /\ Cardinality(Intersection(probe.increasers, probe.decreasers)) > 0
        THEN "both increase and decrease"
    ELSE IF (IsType(probe, "watcher") \/ IsType(probe, "sampler"))
            /\ (~Truthy(probe.index) \/ ~Truthy(probe.collection))
        THEN "missing index or collection"
    ELSE NoDefect

\* the result of a call: the value returned, or the error thrown
Returned(output) == [raised |-> "none", name |-> "", defect |-> NoDefect, output |-> output]

Thrown(kind, name, defect) == [raised |-> kind, name |-> name, defect |-> defect, output |-> <<>>]

\* _.cloneDeep(probes[name]) with probe.name = name
NamedClone(entry) == [entry.decl EXCEPT !.name = Text(entry.key)]

\* no copy is made: the name is set on the declaration of the caller
LeftWithName(entry) == [entry EXCEPT !.decl.name = Text(entry.key)]

\* what the copy and the naming of a probe leave of the caller's entry
LeftInCaller(entry) == entry

\* the entries the loop of _configureProbes goes through: all of them, or
\* those up to the first that fails a check
Visited(mapping) ==
    IF \E i \in 1..Len(mapping) : CheckProbe(NamedClone(mapping[i])) # NoDefect
        THEN CHOOSE i \in 1..Len(mapping) :
                /\ CheckProbe(NamedClone(mapping[i])) # NoDefect
                /\ \A j \in 1..(i - 1) : CheckProbe(NamedClone(mapping[j])) = NoDefect
        ELSE Len(mapping)

\* the mapping of the caller once _configureProbes has run on it
CallerMapping(mapping) ==
    [i \in 1..Len(mapping) |->
        IF i <= Visited(mapping) THEN LeftInCaller(mapping[i]) ELSE mapping[i]]

RECURSIVE ConfigureSkipping(_, _, _)
\* the loop drops a probe that fails a check and goes on with the next one
ConfigureSkipping(probes, i, output) ==
    IF i > Len(probes) THEN Returned(output)
    ELSE IF CheckProbe(NamedClone(probes[i])) # NoDefect
        THEN ConfigureSkipping(probes, i + 1, output)
        ELSE ConfigureSkipping(probes, i + 1, Append(output, NamedClone(probes[i])))

RECURSIVE ConfigureFrom(_, _, _)
\* the loop over Object.keys(probes), from entry i on
ConfigureFrom(probes, i, output) ==
    IF i > Len(probes) THEN Returned(output)
    ELSE IF CheckProbe(NamedClone(probes[i])) # NoDefect
        THEN Thrown("ConfigError", probes[i].key, CheckProbe(NamedClone(probes[i])))
        ELSE ConfigureFrom(probes, i + 1, Append(output, NamedClone(probes[i])))

\* the validated probes, in the order of their keys, or the error thrown
ConfigureProbes(probes) ==
    IF Len(probes) = 0 THEN Returned(<<>>) ELSE ConfigureFrom(probes, 1, <<>>)

(***************************************************************************)
(* _addEventToHooks and _buildHooksList.  A hook table maps every event to *)
(* Absent (no key), a string (one handler) or an array of handlers.        *)
(***************************************************************************)
EmptyHooks == [e \in AllEvents |-> Absent]

HookKeys(hooks) == {e \in AllEvents : hooks[e] # Absent}

\* a second type never joins the first one registered
AddEventKeepingFirst(hooks, event, probeType) ==
    IF ~Truthy(hooks[event]) THEN [hooks EXCEPT ![event] = Text(probeType)]
    ELSE IF IsArray(hooks[event]) /\ probeType \notin Range(hooks[event].v)
        THEN [hooks EXCEPT ![event] = List(Append(hooks[event].v, probeType))]
    ELSE hooks

\* a new type is put in front of the ones registered before it
AddEventInFront(hooks, event, probeType) ==
    IF ~Truthy(hooks[event]) THEN [hooks EXCEPT ![event] = Text(probeType)]
    ELSE IF hooks[event].k = "string" /\ hooks[event].v[1] # probeType
        THEN [hooks EXCEPT ![event] = List(<<probeType, hooks[event].v[1]>>)]
    ELSE IF IsArray(hooks[event]) /\ probeType \notin Range(hooks[event].v)
        THEN [hooks EXCEPT ![event] = List(<<probeType>> \o hooks[event].v)]
    ELSE hooks

\* a type is added without looking whether the entry already has it
AddEventAgain(hooks, event, probeType) ==
    IF ~Truthy(hooks[event]) THEN [hooks EXCEPT ![event] = Text(probeType)]
    ELSE IF hooks[event].k = "string"
        THEN [hooks EXCEPT ![event] = List(<<hooks[event].v[1], probeType>>)]
    ELSE IF IsArray(hooks[event])
        THEN [hooks EXCEPT ![event] = List(Append(hooks[event].v, probeType))]
    ELSE hooks

\* the hooks object returned by _addEventToHooks
AddEventToHooks(hooks, event, probeType) ==
    IF ~Truthy(hooks[event]) THEN [hooks EXCEPT ![event] = Text(probeType)]
    ELSE IF hooks[event].k = "string" /\ hooks[event].v[1] # probeType
        THEN [hooks EXCEPT ![event] = List(<<hooks[event].v[1], probeType>>)]
    ELSE IF IsArray(hooks[event]) /\ probeType \notin Range(hooks[event].v)
        THEN [hooks EXCEPT ![event] = List(Append(hooks[event].v, probeType))]
    ELSE hooks

\* the hooks object given to _addEventToHooks, as the call leaves it:
\* _.clone copies the keys and shares the arrays, so an assignment to
\* newHooks[event] stays in the copy and a push reaches the given object
GivenHooks(hooks, event, probeType) ==
    IF ~Truthy(hooks[event]) THEN hooks
    ELSE IF hooks[event].k = "string" /\ hooks[event].v[1] # probeType THEN hooks
    ELSE IF IsArray(hooks[event]) /\ probeType \notin Range(hooks[event].v)
        THEN [hooks EXCEPT ![event] = List(Append(hooks[event].v, probeType))]
    ELSE hooks

\* what [].concat(x) adds for one argument x, after filter(value => value):
\* the elements of an array, the value itself when it is a string, nothing
\* when it is undefined or falsy
Concat(x) ==
    IF IsArray(x) THEN x.v ELSE IF Truthy(x) THEN x.v ELSE <<>>

\* the hooks of the probe are left out of the list
HookListWithoutHooks(probe) ==
    Concat(probe.increasers) \o Concat(probe.decreasers)

\* [].concat(probe.hooks, probe.increasers, probe.decreasers).filter(value => value)
HookList(probe) ==
    Concat(probe.hooks) \o Concat(probe.increasers) \o Concat(probe.decreasers)

RECURSIVE AddEvents(_, _, _, _)
\* the loops over a list of events, from element i on
AddEvents(hooks, events, i, probeType) ==
    IF i > Len(events) THEN hooks
    ELSE AddEvents(AddEventToHooks(hooks, events[i], probeType), events, i + 1, probeType)

\* what one iteration of the loop of _buildHooksList does with one probe
AddProbe(hooks, probe) ==
    IF probe.type.v[1] \in {"monitor", "counter"}
        THEN AddEvents(hooks, HookList(probe), 1, probe.type.v[1])
    ELSE IF probe.type.v[1] \in {"watcher", "sampler"}
        THEN AddEvents(hooks, StructuralEvents, 1, probe.type.v[1])
    ELSE hooks

RECURSIVE BuildFrom(_, _, _)
BuildFrom(probes, i, hooks) ==
    IF i > Len(probes) THEN hooks
    ELSE BuildFrom(probes, i + 1, AddProbe(hooks, probes[i]))

\* the hook table of a validated probe set
BuildHooksList(probes) == BuildFrom(probes, 1, EmptyHooks)

(***************************************************************************)
(* The state.  probes, hooks, client, config and kdcConnectionErrorCount   *)
(* are the fields of the plugin; clients and queries are the transport     *)
(* clients created and the requests given to them; log counts the lines    *)
(* written to context.log; input and outcome are the argument and the      *)
(* result of the last call made by the host.                               *)
(***************************************************************************)
VARIABLES probes, hooks, client, config, kdcConnectionErrorCount,
          clients, queries, log, input, outcome

vars == <<probes, hooks, client, config, kdcConnectionErrorCount,
          clients, queries, log, input, outcome>>

\* most clients connectToKDC creates in one run
MaxConnects == 3

\* most requests given to the clients in one run
MaxQueries == 2

\* largest maxKdcConnectionErrors a configuration sets
MaxGivenErrors == 1

DefaultMaxKdcConnectionErrors == 10

\* this.client = {} : the handle before connectToKDC has run
EmptyHandle == 0

\* this.kdcConnectionErrorCount and this.config before init has run
Undefined == 0 - 1

\* a plugin configuration: its probes, and maxKdcConnectionErrors when given
Custom(decls, given, max) ==
    [probes |-> ToMapping(decls), maxGiven |-> given, maxKdcConnectionErrors |-> max]

\* Object.assign(defaultConfig, customConfig)
Assign(custom) ==
    [probes |-> custom.probes,
     maxKdcConnectionErrors |->
        IF custom.maxGiven THEN custom.maxKdcConnectionErrors
        ELSE DefaultMaxKdcConnectionErrors]

NoConfig == [probes |-> <<>>, maxKdcConnectionErrors |-> Undefined]

\* the payload the host hands to a handler: null, or a request exposing serialize()
Null == [k |-> "null", v |-> <<>>]

RequestPayload(content) == [k |-> "request", v |-> <<content>>]

\* payload.serialize(): the JSON text of the request
Serialize(payload) == [k |-> "string", v |-> <<"json">> \o payload.v]

\* a call of the host and its result; for a fired event, the payload, the
\* entry of the hook table, the client used and the requests made before it
Call(op, result, event, payload, bound, from, on) ==
    [op |-> op, raised |-> result.raised, name |-> result.name, defect |-> result.defect,
     event |-> event, payload |-> payload, bound |-> bound, from |-> from, client |-> on]

NoCall == Call("new", Returned(<<>>), "", Null, Absent, 0, 0)

NoLog == [connected |-> 0, retry |-> 0, down |-> 0, sendError |-> 0]

\* the plugin after its constructor
Constructed ==
    /\ probes = <<>>
    /\ hooks = EmptyHooks
    /\ client = EmptyHandle
    /\ config = NoConfig
    /\ kdcConnectionErrorCount = Undefined
    /\ clients = <<>>
    /\ queries = <<>>
    /\ log = NoLog
    /\ outcome = NoCall

(***************************************************************************)
(* init                                                                    *)
(***************************************************************************)
\* the reserved hook is installed whatever the number of probes
InitHooksAlways(validated, old) ==
    [BuildHooksList(validated) EXCEPT ![KuzzleStart] = Text("connectToKDC")]

\* the hooks after a successful init
InitHooks(validated, old) ==
    IF Len(validated) > 0
        THEN [BuildHooksList(validated) EXCEPT ![KuzzleStart] = Text("connectToKDC")]
        ELSE old

\* init storing the configuration and resetting the counter before validating
InitCallStoringFirst(custom) ==
    LET result == ConfigureProbes(Assign(custom).probes) IN
    /\ input' = [custom EXCEPT !.probes = CallerMapping(custom.probes)]
    /\ outcome' = Call("init", result, "", Null, Absent, Len(queries), client)
    /\ config' = Assign(custom)
    /\ kdcConnectionErrorCount' = 0
    /\ IF result.raised # "none"
        THEN UNCHANGED <<probes, hooks>>
        ELSE /\ probes' = result.output
             /\ hooks' = InitHooks(result.output, hooks)
    /\ UNCHANGED <<client, clients, queries, log>>

InitCall(custom) ==
    LET result == ConfigureProbes(Assign(custom).probes) IN
    /\ input' = [custom EXCEPT !.probes = CallerMapping(custom.probes)]
    /\ outcome' = Call("init", result, "", Null, Absent, Len(queries), client)
    /\ IF result.raised # "none"
        THEN UNCHANGED <<probes, hooks, config, kdcConnectionErrorCount>>
        ELSE /\ probes' = result.output
             /\ config' = Assign(custom)
             /\ kdcConnectionErrorCount' = 0
             /\ hooks' = InitHooks(result.output, hooks)
    /\ UNCHANGED <<client, clients, queries, log>>

(***************************************************************************)
(* connectToKDC and the callbacks of client.connect()                      *)
(***************************************************************************)
\* the host fires core:kuzzleStart: a new client is created, stored in
\* this.client and asked to connect
ConnectToKDC ==
    /\ hooks[KuzzleStart] = Text("connectToKDC")
    /\ Len(clients) < MaxConnects
    /\ clients' = Append(clients, [status |-> "pending", disconnects |-> 0])
    /\ client' = Len(clients) + 1
    /\ UNCHANGED <<probes, hooks, config, kdcConnectionErrorCount, queries, log, input, outcome>>

\* connect() of client c succeeds: the then callback
ConnectFulfilled(c) ==
    /\ clients[c].status = "pending"
    /\ clients' = [clients EXCEPT ![c].status = "connected"]
    /\ log' = [log EXCEPT !.connected = @ + 1]
    /\ UNCHANGED <<probes, hooks, client, config, kdcConnectionErrorCount, queries, input, outcome>>

\* the catch callback comparing the counter with <= instead of <
ConnectRejectedInclusive(c) ==
    /\ clients[c].status = "pending"
    /\ IF kdcConnectionErrorCount <= config.maxKdcConnectionErrors
        THEN /\ kdcConnectionErrorCount' = kdcConnectionErrorCount + 1
             /\ log' = [log EXCEPT !.retry = @ + 1]
             /\ clients' = [clients EXCEPT ![c].status = "failed"]
        ELSE /\ log' = [log EXCEPT !.down = @ + 1]
             /\ clients' = [[clients EXCEPT ![c].status = "failed"]
                                EXCEPT ![client].disconnects = @ + 1]
             /\ UNCHANGED kdcConnectionErrorCount
    /\ UNCHANGED <<probes, hooks, client, config, queries, input, outcome>>

\* connect() of client c fails: the catch callback
ConnectRejected(c) ==
    /\ clients[c].status = "pending"
    /\ IF kdcConnectionErrorCount < config.maxKdcConnectionErrors
        THEN /\ kdcConnectionErrorCount' = kdcConnectionErrorCount + 1
             /\ log' = [log EXCEPT !.retry = @ + 1]
             /\ clients' = [clients EXCEPT ![c].status = "failed"]
        ELSE /\ log' = [log EXCEPT !.down = @ + 1]
             /\ clients' = [[clients EXCEPT ![c].status = "failed"]
                                EXCEPT ![client].disconnects = @ + 1]
             /\ UNCHANGED kdcConnectionErrorCount
    /\ UNCHANGED <<probes, hooks, client, config, queries, input, outcome>>

(***************************************************************************)
(* The handlers and _sendPayload                                           *)
(***************************************************************************)
\* the request _sendPayload builds
Request(probeType, event, payload) ==
    [controller |-> "kuzzle-plugin-probe/measure",
     action |-> probeType,
     body |-> [event |-> event,
               payload |-> IF payload # Null THEN Serialize(payload) ELSE Absent]]

\* every handler hands its payload on to _sendPayload
HandlerWithPayload(probeType, event, payload) ==
    Request(probeType, event, payload)

\* monitor(payload, event), counter(payload, event), watcher(payload, event)
\* and sampler(payload, event): the arguments they give to _sendPayload
Handler(probeType, event, payload) ==
    IF probeType \in {"watcher", "sampler"}
        THEN Request(probeType, event, payload)
        ELSE Request(probeType, event, Null)

\* the handlers bound to an event, in the order of the hook table
Bound(entry) == IF IsArray(entry) THEN entry.v ELSE IF Truthy(entry) THEN entry.v ELSE <<>>

\* the host fires an event of the hook table with a payload: every handler
\* bound to it runs, in order.  On the empty handle this.client.query is not
\* a function, and the call throws a TypeError.
Fire(event, payload) ==
    LET handlers == Bound(hooks[event]) IN
    /\ hooks[event] # Absent
    /\ hooks[event] # Text("connectToKDC")
    /\ Len(queries) + Len(handlers) <= MaxQueries
    /\ IF client = EmptyHandle
        THEN /\ outcome' = Call("fire", Thrown("TypeError", "", NoDefect), event, payload,
                                hooks[event], Len(queries), client)
             /\ UNCHANGED queries
        ELSE /\ outcome' = Call("fire", Returned(<<>>), event, payload,
                                hooks[event], Len(queries), client)
             /\ queries' = queries \o
                    [i \in 1..Len(handlers) |->
                        [status |-> "pending",
                         request |-> Handler(handlers[i], event, payload)]]
    /\ UNCHANGED <<probes, hooks, client, config, kdcConnectionErrorCount, clients, log, input>>

\* client.query() of request q succeeds
QueryFulfilled(q) ==
    /\ queries[q].status = "pending"
    /\ queries' = [queries EXCEPT ![q].status = "sent"]
    /\ UNCHANGED <<probes, hooks, client, config, kdcConnectionErrorCount, clients, log, input, outcome>>

\* the catch callback of the query counting a connection error as well
QueryRejectedCounting(q) ==
    /\ queries[q].status = "pending"
    /\ queries' = [queries EXCEPT ![q].status = "failed"]
    /\ log' = [log EXCEPT !.sendError = @ + 1]
    /\ kdcConnectionErrorCount' = kdcConnectionErrorCount + 1
    /\ UNCHANGED <<probes, hooks, client, config, clients, input, outcome>>

\* client.query() of request q fails: the catch callback logs the error
QueryRejected(q) ==
    /\ queries[q].status = "pending"
    /\ queries' = [queries EXCEPT ![q].status = "failed"]
    /\ log' = [log EXCEPT !.sendError = @ + 1]
    /\ UNCHANGED <<probes, hooks, client, config, kdcConnectionErrorCount, clients, input, outcome>>

(***************************************************************************)
(* The inputs and the specifications                                       *)
(***************************************************************************)
Payloads == {RequestPayload("doc1"), RequestPayload("doc2")}

\* the declarations the probe mappings are drawn from
RawDecls ==
    { Decl(Absent, Absent, Absent, Absent, Absent, Absent),
      Decl(Text("gauge"), List(<<"a">>), Absent, Absent, Absent, Absent),
      MonitorDecl(Absent, Absent),
      MonitorDecl(Text("a"), Absent),
      MonitorDecl(List(<<>>), Absent),
      MonitorDecl(List(<<"a">>), Absent),
      MonitorDecl(List(<<"a", "c">>), Absent),
      MonitorDecl(List(<<"realtime:beforePublish">>), Absent),
      MonitorDecl(List(<<KuzzleStart>>), Absent),
      MonitorDecl(List(<<"c">>), List(<<"b">>)),
      CounterDecl(Absent, Absent, Absent),
      CounterDecl(Text("a"), Absent, Absent),
      CounterDecl(List(<<"a">>), Text("b"), Absent),
      CounterDecl(Falsy, List(<<"a">>), Absent),
      CounterDecl(List(<<>>), List(<<>>), Absent),
      CounterDecl(List(<<"a">>), List(<<"b">>), Absent),
      CounterDecl(List(<<"a">>), List(<<"a">>), Absent),
      CounterDecl(List(<<"a", "b">>), List(<<"c", "b">>), Absent),
      CounterDecl(Absent, List(<<"b">>), List(<<"c">>)),
      DataDecl("watcher", Text("idx"), Text("col")),
      DataDecl("watcher", Absent, Text("col")),
      DataDecl("sampler", Text("idx"), Text("col")),
      DataDecl("sampler", Text("idx"), Absent) }

DeclSeqs == UNION {[1..n -> RawDecls] : n \in 0..MaxProbes}

\* the configurations of the validation runs: every mapping of at most
\* MaxProbes declarations, maxKdcConnectionErrors left to its default
ConfigInputs == {Custom(decls, FALSE, 0) : decls \in DeclSeqs}

\* the probe mappings of the connection and dispatch runs
LifecycleDecls ==
    { <<>>,
      <<CounterDecl(List(<<"a">>), List(<<"b">>), Absent),
        MonitorDecl(List(<<"a", "c">>), Absent),
        MonitorDecl(List(<<"a">>), Absent)>>,
      <<DataDecl("watcher", Text("idx"), Text("col")),
        DataDecl("sampler", Text("idx"), Text("col"))>>,
      <<MonitorDecl(List(<<KuzzleStart>>), Absent)>>,
      <<MonitorDecl(List(<<"a">>), Absent),
        CounterDecl(List(<<"a">>), List(<<"a">>), Absent)>> }

LifecycleInputs ==
    {Custom(decls, TRUE, max) : decls \in LifecycleDecls, max \in 1..MaxGivenErrors}
    \cup {Custom(<<MonitorDecl(List(<<"a">>), Absent)>>, FALSE, 0)}

\* a plugin is constructed, the host calls init once, then fires events, and
\* the transport completes what it was asked
Init ==
    /\ Constructed
    /\ input = Custom(<<>>, FALSE, 0)

PluginInit == outcome.op = "new" /\ \E custom \in LifecycleInputs : InitCall(custom)

HostFire == \E event \in AllEvents, payload \in Payloads : Fire(event, payload)

ConnectDone == \E c \in 1..Len(clients) : ConnectFulfilled(c)

ConnectFailed == \E c \in 1..Len(clients) : ConnectRejected(c)

QueryDone == \E q \in 1..Len(queries) : QueryFulfilled(q)

QueryFailed == \E q \in 1..Len(queries) : QueryRejected(q)

Next ==
    \/ PluginInit
    \/ ConnectToKDC
    \/ ConnectDone
    \/ ConnectFailed
    \/ HostFire
    \/ QueryDone
    \/ QueryFailed

Spec == Init /\ [][Next]_vars

\* a plugin is constructed and init is called once, with any probe mapping
ConfigInit ==
    /\ Constructed
    /\ input \in ConfigInputs

FreshInit == outcome.op = "new" /\ InitCall(input)

ConfigNext == FreshInit

ConfigSpec == ConfigInit /\ [][ConfigNext]_vars

\* the probe mappings of the runs that call init again: with no probe, with
\* admitted probes, and with a declaration that makes validation throw
ReinitDecls ==
    { <<>>,
      <<MonitorDecl(List(<<"a">>), Absent)>>,
      <<CounterDecl(List(<<"a">>), List(<<"b">>), Absent),
        MonitorDecl(List(<<"a", "c">>), Absent)>>,
      <<DataDecl("watcher", Text("idx"), Text("col")),
        MonitorDecl(Absent, Absent)>>,
      <<CounterDecl(List(<<"a">>), List(<<"a">>), Absent)>> }

ReinitInputs ==
    {Custom(decls, TRUE, max) : decls \in ReinitDecls, max \in 1..MaxGivenErrors}
    \cup {Custom(decls, FALSE, 0) : decls \in ReinitDecls}

\* init is called on the plugin, new or already initialized
AnyInit == \E custom \in ReinitInputs : InitCall(custom)

\* a plugin is constructed, the host calls init any number of times and
\* fires core:kuzzleStart, and the transport completes the connections
ReinitNext ==
    \/ AnyInit
    \/ ConnectToKDC
    \/ ConnectDone
    \/ ConnectFailed

ReinitSpec == Init /\ [][ReinitNext]_vars

(***************************************************************************)
(* What the specification calls a well-formed and a malformed declaration  *)
(***************************************************************************)
Present(x) == x # Absent

NonEmptyList(x) == IsArray(x) /\ Len(x.v) > 0

AbsentOrList(x) == x = Absent \/ IsArray(x)

\* a counter whose increasers and decreasers are lists with a common event
SharesEvent(decl) ==
    /\ IsType(decl, "counter")
    /\ IsArray(decl.increasers) /\ IsArray(decl.decreasers)
    /\ Range(decl.increasers.v) \cap Range(decl.decreasers.v) # {}

\* the structural constraints of a probe of each kind
WellFormed(decl) ==
    /\ IsSupported(decl.type)
    /\ IsType(decl, "monitor") => NonEmptyList(decl.hooks)
    /\ IsType(decl, "counter") =>
        /\ AbsentOrList(decl.increasers) /\ AbsentOrList(decl.decreasers)
        /\ NonEmptyList(decl.increasers) \/ NonEmptyList(decl.decreasers)
        /\ ~SharesEvent(decl)
    /\ (IsType(decl, "watcher") \/ IsType(decl, "sampler")) =>
        Present(decl.index) /\ Present(decl.collection)

\* the defects of a declaration among those init has to report
Defects(decl) ==
    {d \in {"missing type", "unsupported type", "missing hooks",
            "missing increasers or decreasers", "increasers must be an array",
            "decreasers must be an array", "both increase and decrease",
            "missing index or collection"} :
        \/ d = "missing type" /\ decl.type = Absent
        \/ d = "unsupported type" /\ Present(decl.type) /\ ~IsSupported(decl.type)
        \/ d = "missing hooks" /\ IsType(decl, "monitor") /\ ~IsArray(decl.hooks)
        \/ d = "missing increasers or decreasers" /\ IsType(decl, "counter")
            /\ decl.increasers = Absent /\ decl.decreasers = Absent
        \/ d = "increasers must be an array" /\ IsType(decl, "counter")
            /\ Present(decl.increasers) /\ ~IsArray(decl.increasers)
        \/ d = "decreasers must be an array" /\ IsType(decl, "counter")
            /\ Present(decl.decreasers) /\ ~IsArray(decl.decreasers)
        \/ d = "both increase and decrease" /\ SharesEvent(decl)
        \/ d = "missing index or collection"
            /\ (IsType(decl, "watcher") \/ IsType(decl, "sampler"))
            /\ (decl.index = Absent \/ decl.collection = Absent)}

\* the keys of the admitted probes, in order
AdmittedKeys == [i \in 1..Len(probes) |-> probes[i].name.v[1]]

InputKeys == [i \in 1..Len(input.probes) |-> input.probes[i].key]

AfterInit == outcome.op = "init"

(***************************************************************************)
(* C1                                                                      *)
(***************************************************************************)
\* C1, as stated: validation never raises; after init a probe with no type
\* is left out of the admitted probes and every well-formed probe of the
\* mapping is among them.
C1_ValidationIsTotal ==
    AfterInit =>
        /\ outcome.raised = "none"
        /\ \A i \in 1..Len(input.probes) :
            /\ input.probes[i].decl.type = Absent
                => input.probes[i].key \notin Range(AdmittedKeys)
            /\ WellFormed(input.probes[i].decl)
                => input.probes[i].key \in Range(AdmittedKeys)

\* C1, amended: validation is not total.  A mapping with a probe without
\* type makes init raise; an error raised names a probe of the mapping that
\* is malformed, and then no probe at all is admitted, the well-formed ones
\* included; when nothing is raised every probe of the mapping is admitted,
\* in the order of the mapping.
C1_ValidationFailsFast ==
    AfterInit =>
        /\ (\E i \in 1..Len(input.probes) : input.probes[i].decl.type = Absent)
            => outcome.raised = "ConfigError"
        /\ outcome.raised = "ConfigError" =>
            /\ probes = <<>>
            /\ \E i \in 1..Len(input.probes) :
                /\ input.probes[i].key = outcome.name
                /\ ~WellFormed(input.probes[i].decl)
        /\ outcome.raised = "none" => AdmittedKeys = InputKeys

\* a probe without type after a well-formed one: init raised, nothing admitted
C1_Witness ==
    /\ AfterInit
    /\ outcome.raised = "ConfigError"
    /\ outcome.defect = "missing type"
    /\ probes = <<>>
    /\ \E i, j \in 1..Len(input.probes) :
        /\ i < j
        /\ WellFormed(input.probes[i].decl)
        /\ input.probes[j].decl.type = Absent
        /\ outcome.name = input.probes[j].key

(***************************************************************************)
(* C2                                                                      *)
(***************************************************************************)
\* the first entry of the mapping with one of the defects
FirstOffending ==
    CHOOSE i \in 1..Len(input.probes) :
        /\ Defects(input.probes[i].decl) # {}
        /\ \A j \in 1..(i - 1) : Defects(input.probes[j].decl) = {}

\* C2: when the mapping holds a probe with one of the listed defects, init
\* raises a configuration error naming the first such probe and a defect it
\* has, and nothing of the plugin is initialized.
C2_DefectsAbortInit ==
    (AfterInit /\ \E i \in 1..Len(input.probes) : Defects(input.probes[i].decl) # {}) =>
        /\ outcome.raised = "ConfigError"
        /\ outcome.name = input.probes[FirstOffending].key
        /\ outcome.defect \in Defects(input.probes[FirstOffending].decl)
        /\ probes = <<>>
        /\ hooks = EmptyHooks
        /\ config = NoConfig

(***************************************************************************)
(* C6                                                                      *)
(***************************************************************************)
\* an entry of the hook table is the kind, or a list holding it
HasKind(entry, kind) == entry = Text(kind) \/ (IsArray(entry) /\ kind \in Range(entry.v))

\* C6: every event of the non-empty hooks list of an admitted monitor probe
\* is a key of the table _buildHooksList builds, bound to 'monitor' or to a
\* list containing 'monitor'.
C6_MonitorHooksAreBound ==
    LET table == BuildHooksList(probes) IN
    \A i \in 1..Len(probes) :
        (IsType(probes[i], "monitor") /\ NonEmptyList(probes[i].hooks)) =>
            \A e \in Range(probes[i].hooks.v) :
                /\ e \in HookKeys(table)
                /\ HasKind(table[e], "monitor")

\* a monitor declared after a counter on the same event: the entry is a list
C6_Witness ==
    /\ AfterInit
    /\ \E i, j \in 1..Len(probes) :
        /\ i < j
        /\ IsType(probes[i], "counter")
        /\ IsType(probes[j], "monitor") /\ NonEmptyList(probes[j].hooks)
        /\ \E e \in Range(probes[j].hooks.v) :
            /\ e \in Range(HookList(probes[i]))
            /\ hooks[e] = List(<<"counter", "monitor">>)

(***************************************************************************)
(* C7                                                                      *)
(***************************************************************************)
\* C7: a counter whose increasers and decreasers share an event is rejected:
\* init raises, the error names that counter and this defect when no probe
\* before it fails a check, no probe is admitted and the hook table gets no
\* entry.
C7_SharedEventIsRejected ==
    AfterInit =>
        \A i \in 1..Len(input.probes) :
            SharesEvent(input.probes[i].decl) =>
                /\ outcome.raised = "ConfigError"
                /\ (\A j \in 1..(i - 1) : WellFormed(input.probes[j].decl)) =>
                    /\ outcome.name = input.probes[i].key
                    /\ outcome.defect = "both increase and decrease"
                /\ probes = <<>>
                /\ HookKeys(hooks) = {}
                /\ \A e \in AllEvents : ~HasKind(hooks[e], "counter")

\* a counter sharing an event, declared after a well-formed monitor
C7_Witness ==
    /\ AfterInit
    /\ outcome.raised = "ConfigError"
    /\ outcome.defect = "both increase and decrease"
    /\ HookKeys(hooks) = {}
    /\ \E i, j \in 1..Len(input.probes) :
        /\ i < j
        /\ WellFormed(input.probes[i].decl)
        /\ SharesEvent(input.probes[j].decl)
        /\ outcome.name = input.probes[j].key

(***************************************************************************)
(* C8                                                                      *)
(***************************************************************************)
\* the iteration orders of a mapping of n probes
Orders(n) == {f \in [1..n -> 1..n] : \A i, j \in 1..n : f[i] = f[j] => i = j}

\* the admitted probes, iterated in another order
Reordered(order) == [i \in 1..Len(probes) |-> probes[order[i]]]

\* C8, as stated: the hook table is the same for every iteration order of
\* the probe mapping, the order of the kinds inside an entry included.
C8_TableSameInEveryOrder ==
    \A order \in Orders(Len(probes)) :
        BuildHooksList(Reordered(order)) = BuildHooksList(probes)

\* C8, amended: for every iteration order of the probe mapping the hook
\* table has the same keys, and each key holds the same kinds, as a bare kind
\* or as a list alike; the order of the kinds inside a list is the only
\* thing that depends on the iteration order.
C8_TableSameUpToKindOrder ==
    LET table == BuildHooksList(probes) IN
    \A order \in Orders(Len(probes)) :
        LET other == BuildHooksList(Reordered(order)) IN
        \A e \in AllEvents :
            /\ other[e].k = table[e].k
            /\ Range(other[e].v) = Range(table[e].v)

\* probes of two kinds share an event, and another order gives another table
C8_Witness ==
    /\ AfterInit
    /\ \E e \in AllEvents : IsArray(hooks[e]) /\ Len(hooks[e].v) = 3
    /\ \E order \in Orders(Len(probes)) :
        BuildHooksList(Reordered(order)) # BuildHooksList(probes)

(***************************************************************************)
(* C9                                                                      *)
(***************************************************************************)
\* the events a probe registers its kind for
Triggers(probe) ==
    IF probe.type.v[1] \in {"monitor", "counter"} THEN Range(HookList(probe))
    ELSE Range(StructuralEvents)

\* the probes binding an event, and the kinds they bind it to
Binders(e) == {i \in 1..Len(probes) : e \in Triggers(probes[i])}

KindsOf(e) == {probes[i].type.v[1] : i \in Binders(e)}

\* the first probe of a kind, in declaration order, that binds the event
FirstOf(kind, e) ==
    CHOOSE i \in Binders(e) :
        /\ probes[i].type.v[1] = kind
        /\ \A j \in Binders(e) : probes[j].type.v[1] = kind => i <= j

\* the kinds bound to an event, in the order in which each first registered
FirstSeen(e) ==
    CHOOSE s \in [1..Cardinality(KindsOf(e)) -> KindsOf(e)] :
        \A a, b \in 1..Cardinality(KindsOf(e)) :
            a < b => FirstOf(s[a], e) < FirstOf(s[b], e)

\* C9: in the table built from the admitted probes an event bound by no
\* probe has no key, an event bound by probes of one kind holds that bare
\* kind, and an event bound by probes of several kinds holds the list of
\* these kinds in the order in which each kind first registered.
C9_KindsInFirstSeenOrder ==
    LET table == BuildHooksList(probes) IN
    \A e \in AllEvents :
        table[e] =
            IF KindsOf(e) = {} THEN Absent
            ELSE IF Cardinality(KindsOf(e)) = 1 THEN Text(FirstSeen(e)[1])
            ELSE List(FirstSeen(e))

\* a counter on a and b declared before a monitor on a and c
C9_Witness ==
    /\ AfterInit
    /\ Len(probes) = 2
    /\ IsType(probes[1], "counter") /\ IsType(probes[2], "monitor")
    /\ probes[1].increasers = List(<<"a">>) /\ probes[1].decreasers = List(<<"b">>)
    /\ probes[2].hooks = List(<<"a", "c">>)
    /\ BuildHooksList(probes) =
        [e \in AllEvents |->
            IF e = "a" THEN List(<<"counter", "monitor">>)
            ELSE IF e = "b" THEN Text("counter")
            ELSE IF e = "c" THEN Text("monitor")
            ELSE Absent]

(***************************************************************************)
(* C3                                                                      *)
(***************************************************************************)
AfterFire == outcome.op = "fire"

\* the requests made by the last event fired
Dispatched == SubSeq(queries, outcome.from + 1, Len(queries))

\* C3: every request a handler sends is addressed to
\* 'kuzzle-plugin-probe/measure' with the kind of the handler as action; the
\* body of a watcher or sampler request is the event with the serialized
\* payload, the body of a monitor or counter request is the event alone,
\* whatever the payload fired.
C3_RequestShape ==
    /\ \A q \in 1..Len(queries) :
        /\ queries[q].request.controller = "kuzzle-plugin-probe/measure"
        /\ queries[q].request.action \in Range(SupportedTypes)
        /\ queries[q].request.action \in {"monitor", "counter"}
            => queries[q].request.body.payload = Absent
        /\ queries[q].request.action \in {"watcher", "sampler"}
            => \E p \in Payloads : queries[q].request.body.payload = Serialize(p)
    /\ AfterFire =>
        \A i \in 1..Len(Dispatched) :
            /\ Dispatched[i].request.action = Bound(outcome.bound)[i]
            /\ Dispatched[i].request.body =
                IF Dispatched[i].request.action \in {"watcher", "sampler"}
                    THEN [event |-> outcome.event, payload |-> Serialize(outcome.payload)]
                    ELSE [event |-> outcome.event, payload |-> Absent]

\* an event fired with a request as payload has reached a monitor, and one
\* has reached a watcher and a sampler
C3_Witness ==
    /\ AfterFire
    /\ outcome.payload = RequestPayload("doc2")
    /\ outcome.bound = List(<<"watcher", "sampler">>)
    /\ Len(Dispatched) = 2
    /\ Dispatched[1].request.body =
        [event |-> outcome.event, payload |-> [k |-> "string", v |-> <<"json", "doc2">>]]

(***************************************************************************)
(* C4                                                                      *)
(***************************************************************************)
\* C4: a handler called by the host never raises, whatever the state of the
\* connection: before connectToKDC has run, while the connection is pending,
\* once connected, after a failure and after the give-up disconnect.
C4_DispatchNeverRaises ==
    AfterFire => outcome.raised = "none"

(***************************************************************************)
(* C5                                                                      *)
(***************************************************************************)
RECURSIVE DisconnectsFrom(_)
DisconnectsFrom(i) ==
    IF i > Len(clients) THEN 0 ELSE clients[i].disconnects + DisconnectsFrom(i + 1)

\* the calls of disconnect() made so far
Disconnects == DisconnectsFrom(1)

\* the connection failures reported so far
Failures == log.retry + log.down

\* C5: as long as every connection attempt has failed, the plugin has given
\* up (terminal error logged, disconnect() called) exactly when
\* maxKdcConnectionErrors failures have been reported, and disconnect() has
\* then been called exactly once.
C5_GiveUpAtMaxFailures ==
    (config # NoConfig /\ log.connected = 0) =>
        /\ Failures < config.maxKdcConnectionErrors => (log.down = 0 /\ Disconnects = 0)
        /\ Failures >= config.maxKdcConnectionErrors => (log.down = 1 /\ Disconnects = 1)

(***************************************************************************)
(* C10                                                                     *)
(***************************************************************************)
\* C10: an event fired by the host gives exactly one request per kind bound
\* to it in the hook table, in the order of the table.
C10_OneRequestPerKind ==
    AfterFire =>
        /\ Len(Dispatched) = Len(Bound(outcome.bound))
        /\ \A i \in 1..Len(Dispatched) :
            Dispatched[i].request.action = Bound(outcome.bound)[i]

(***************************************************************************)
(* C11                                                                     *)
(***************************************************************************)
InitCalled == outcome.op # "new"

\* C11: once init has been called on a new plugin, 'core:kuzzleStart' is
\* bound to connectToKDC exactly when some probe has been admitted; with no
\* probe admitted the hook table is empty, the client is still the empty
\* handle and no client has ever been created.
C11_StartHookIffProbes ==
    InitCalled =>
        /\ (hooks[KuzzleStart] = Text("connectToKDC")) <=> (Len(probes) > 0)
        /\ Len(probes) = 0 =>
            /\ HookKeys(hooks) = {}
            /\ client = EmptyHandle
            /\ clients = <<>>

\* init has returned with an empty probe mapping
C11_Witness ==
    /\ AfterInit
    /\ outcome.raised = "none"
    /\ Len(input.probes) = 0
    /\ probes = <<>>
    /\ hooks[KuzzleStart] = Absent
    /\ client = EmptyHandle

(***************************************************************************)
(* C12                                                                     *)
(***************************************************************************)
\* the declaration of an entry, with its key as name
CopyWithName(entry) == [entry.decl EXCEPT !.name = Text(entry.key)]

\* C12: a call of init leaves the probe mapping of the caller as it was,
\* whether validation succeeds or raises part-way, and when it succeeds every
\* admitted probe is its declaration with the added name, equal to its key.
C12_InputUnchanged ==
    [][/\ input' = input
       /\ outcome'.raised = "none" =>
            probes' = [i \in 1..Len(input.probes) |-> CopyWithName(input.probes[i])]]_vars

\* init has admitted several probes: each has its name, the declarations of
\* the caller have none
C12_Witness ==
    /\ AfterInit
    /\ outcome.raised = "none"
    /\ Len(probes) >= 2
    /\ \A i \in 1..Len(probes) :
        /\ probes[i].name = Text(input.probes[i].key)
        /\ input.probes[i].decl.name = Absent

(***************************************************************************)
(* C13                                                                     *)
(***************************************************************************)
ListEvents(x) == IF IsArray(x) THEN Range(x.v) ELSE {}

\* the trigger events of a probe of each kind: the hooks of a monitor, the
\* increasers and decreasers of a counter, the three structural events of a
\* watcher or sampler
TriggerEvents(probe) ==
    IF IsType(probe, "monitor") THEN ListEvents(probe.hooks)
    ELSE IF IsType(probe, "counter")
        THEN ListEvents(probe.increasers) \cup ListEvents(probe.decreasers)
    ELSE Range(StructuralEvents)

\* C13: the keys of the table built from the admitted probes are the union
\* of the trigger events of the probes, and an event is bound to a kind only
\* if a probe of that kind has it among its trigger events.
C13_KeysAreTriggerEvents ==
    LET table == BuildHooksList(probes) IN
    /\ HookKeys(table) = UNION {TriggerEvents(probes[i]) : i \in 1..Len(probes)}
    /\ \A e \in AllEvents : \A kind \in Range(SupportedTypes) :
        HasKind(table[e], kind) =>
            \E i \in 1..Len(probes) :
                IsType(probes[i], kind) /\ e \in TriggerEvents(probes[i])

(***************************************************************************)
(* C14                                                                     *)
(***************************************************************************)
\* how many times a kind stands in an entry of the hook table
Occurrences(entry, kind) ==
    IF Truthy(entry) THEN Cardinality({n \in 1..Len(entry.v) : entry.v[n] = kind}) ELSE 0

\* C14: in the table built from the admitted probes no entry holds a kind
\* twice, however many probes of the kind share the event, and registering
\* a kind an entry already is or contains gives back the same table.
C14_NoKindTwice ==
    LET table == BuildHooksList(probes) IN
    \A e \in AllEvents : \A kind \in Range(SupportedTypes) :
        /\ Occurrences(table[e], kind) <= 1
        /\ Occurrences(table[e], kind) = 1 <=>
            \E i \in 1..Len(probes) : IsType(probes[i], kind) /\ e \in Triggers(probes[i])
        /\ HasKind(table[e], kind) => AddEventToHooks(table, e, kind) = table

\* two monitors and a counter share an event: the entry has each kind once
C14_Witness ==
    /\ AfterInit
    /\ \E e \in AllEvents :
        /\ hooks[e] = List(<<"monitor", "counter">>)
        /\ \E i, j \in 1..Len(probes) :
            /\ i < j
            /\ IsType(probes[i], "monitor") /\ e \in Triggers(probes[i])
            /\ IsType(probes[j], "monitor") /\ e \in Triggers(probes[j])

(***************************************************************************)
(* C15, C16                                                                *)
(***************************************************************************)
\* the give-up branch of the catch callback has run
GivenUp == log.down > 0

\* C15: once the give-up branch has run, no later step creates a client and
\* asks it to connect, reaches a successful connection, or calls
\* disconnect() again.
C15_GiveUpIsTerminal ==
    [][GivenUp =>
        /\ Len(clients') = Len(clients)
        /\ log'.connected = log.connected
        /\ Disconnects' = Disconnects]_vars

\* C16: once the give-up branch has run, firing an event calls query on no
\* client and logs nothing.
C16_NoDispatchAfterGiveUp ==
    [][GivenUp /\ outcome'.op = "fire" /\ outcome' # outcome =>
        /\ queries' = queries
        /\ log' = log]_vars

(***************************************************************************)
(* C17, C18                                                                *)
(***************************************************************************)
\* C17: every admitted monitor has a list of at least one hook.
C17_MonitorHooksNonEmpty ==
    \A i \in 1..Len(probes) :
        IsType(probes[i], "monitor") => NonEmptyList(probes[i].hooks)

\* C18: every admitted counter has at least one event in its increasers or
\* in its decreasers.
C18_CounterHasAnEvent ==
    \A i \in 1..Len(probes) :
        IsType(probes[i], "counter") =>
            NonEmptyList(probes[i].increasers) \/ NonEmptyList(probes[i].decreasers)

(***************************************************************************)
(* C19, C20                                                                *)
(***************************************************************************)
\* init has set this.kdcConnectionErrorCount
CounterSet == kdcConnectionErrorCount # Undefined

\* the catch callback of some client runs in this step
FailureObserved ==
    \E c \in 1..Len(clients) :
        clients[c].status = "pending" /\ clients'[c].status = "failed"

\* C19: a connection failure observed while the counter is below
\* maxKdcConnectionErrors adds exactly one to the counter and logs a retry
\* notice, without the terminal error and without disconnect(); and the
\* counter, from the moment init has set it, stays between 0 and
\* maxKdcConnectionErrors.
C19_CounterStepsAndRange ==
    /\ [](CounterSet =>
            /\ 0 <= kdcConnectionErrorCount
            /\ kdcConnectionErrorCount <= config.maxKdcConnectionErrors)
    /\ [][FailureObserved /\ kdcConnectionErrorCount < config.maxKdcConnectionErrors =>
            /\ kdcConnectionErrorCount' = kdcConnectionErrorCount + 1
            /\ log'.retry = log.retry + 1
            /\ log'.down = log.down
            /\ Disconnects' = Disconnects]_vars

\* the counter has reached the maximum through retries only
C19_Witness ==
    /\ CounterSet
    /\ kdcConnectionErrorCount = config.maxKdcConnectionErrors
    /\ log.retry = config.maxKdcConnectionErrors
    /\ log.retry > 0
    /\ log.down = 0
    /\ Disconnects = 0

\* C20: a successful connection leaves the counter at 0.
C20_SuccessResetsCounter ==
    [][log'.connected > log.connected => kdcConnectionErrorCount' = 0]_vars

(***************************************************************************)
(* C21                                                                     *)
(***************************************************************************)
\* the host fires an event in this step
FireStep == outcome'.op = "fire" /\ outcome' # outcome

\* C21: every handler run by a fired event makes exactly one call of query;
\* a query that fails is logged once; and a query that has completed is
\* never made again.
C21_OneQueryPerInvocation ==
    [][/\ FireStep =>
            Len(queries') = Len(queries) + Len(Bound(hooks[outcome'.event]))
       /\ \A q \in 1..Len(queries) :
            /\ q <= Len(queries')
            /\ queries'[q].request = queries[q].request
            /\ queries[q].status # "pending" => queries'[q] = queries[q]
            /\ queries[q].status = "pending" /\ queries'[q].status = "failed" =>
                    log'.sendError = log.sendError + 1
       /\ log'.sendError # log.sendError =>
            \E q \in 1..Len(queries) :
                queries[q].status = "pending" /\ queries'[q].status = "failed"]_vars

(***************************************************************************)
(* C22                                                                     *)
(***************************************************************************)
\* C22: the increasers and the decreasers of every admitted counter are
\* each absent or a list.
C22_CounterFieldsAbsentOrList ==
    \A i \in 1..Len(probes) :
        IsType(probes[i], "counter") =>
            AbsentOrList(probes[i].increasers) /\ AbsentOrList(probes[i].decreasers)

(***************************************************************************)
(* C23, C24                                                                *)
(***************************************************************************)
\* some call of init has returned
Initialized == config # NoConfig

\* C23: once init has returned, every event other than 'core:kuzzleStart'
\* is bound as in the table built from the probes of the latest successful
\* init, and 'core:kuzzleStart' is bound exactly when those probes are not
\* empty: after an init with no probe the hook table is empty.
C23_HooksOfLatestInit ==
    Initialized =>
        LET table == BuildHooksList(probes) IN
        /\ \A e \in AllEvents \ {KuzzleStart} : hooks[e] = table[e]
        /\ hooks[KuzzleStart] # Absent <=> Len(probes) > 0
        /\ Len(probes) = 0 => hooks = EmptyHooks

\* init is called in this step
InitStep == outcome'.op = "init" /\ (outcome' # outcome \/ input' # input)

\* C24: a call of init that raises leaves probes, hooks, config and the
\* connection error counter as they were before the call.
C24_RaisingInitChangesNothing ==
    [][InitStep /\ outcome'.raised # "none" =>
        /\ probes' = probes
        /\ hooks' = hooks
        /\ config' = config
        /\ kdcConnectionErrorCount' = kdcConnectionErrorCount]_vars

\* init has raised on a plugin that holds the probes, the hooks and the
\* configuration of an earlier init and has counted a connection failure
C24_Witness ==
    /\ AfterInit
    /\ outcome.raised # "none"
    /\ Len(input.probes) = 2
    /\ Len(probes) = 1
    /\ IsType(probes[1], "monitor")
    /\ hooks["a"] = Text("monitor")
    /\ hooks["realtime:beforePublish"] = Absent
    /\ ~input.maxGiven
    /\ config.maxKdcConnectionErrors # DefaultMaxKdcConnectionErrors
    /\ kdcConnectionErrorCount > 0

(***************************************************************************)
(* C25                                                                     *)
(***************************************************************************)
\* C25: after init, every admitted monitor or counter that lists
\* 'core:kuzzleStart' among its events is still bound to it in the hook
\* table.
C25_StartHookKeepsBindings ==
    AfterInit /\ outcome.raised = "none" =>
        \A i \in 1..Len(probes) : \A kind \in {"monitor", "counter"} :
            IsType(probes[i], kind) /\ KuzzleStart \in Triggers(probes[i]) =>
                HasKind(hooks[KuzzleStart], kind)

(***************************************************************************)
(* C26                                                                     *)
(***************************************************************************)
\* a handler runs or a callback of one of its queries runs in this step
DispatchStep == FireStep \/ queries' # queries \/ log'.sendError # log.sendError

\* C26: no step of the dispatch path (a handler, or a callback of its
\* query) changes probes, hooks, config, the client handle or the
\* connection error counter, whatever the connections are doing; and the
\* counter changes only in the failure callback of a connection and in init.
C26_DispatchOnlyReads ==
    [][/\ DispatchStep =>
            /\ probes' = probes
            /\ hooks' = hooks
            /\ config' = config
            /\ client' = client
            /\ kdcConnectionErrorCount' = kdcConnectionErrorCount
       /\ kdcConnectionErrorCount' # kdcConnectionErrorCount =>
            FailureObserved \/ InitStep]_vars

\* an event has been fired and its requests made, after a query has failed,
\* with a connection failure counted and another connection still pending
C26_Witness ==
    /\ AfterFire
    /\ Len(Dispatched) > 0
    /\ log.sendError > 0
    /\ kdcConnectionErrorCount > 0
    /\ \E c \in 1..Len(clients) : clients[c].status = "pending"

(***************************************************************************)
(* C27                                                                     *)
(***************************************************************************)
\* C27: when the connection attempt of a client fails, disconnect() is not
\* called on any client created after it that is pending or connected.
C27_DisconnectsTheFailedClient ==
    [][\A c, d \in 1..Len(clients) :
        /\ c < d
        /\ clients[c].status = "pending" /\ clients'[c].status = "failed"
        /\ clients[d].status \in {"pending", "connected"}
        => clients'[d].disconnects = clients[d].disconnects]_vars

(***************************************************************************)
(* C28                                                                     *)
(***************************************************************************)
\* the events _buildHooksList registers for a probe, in order
Registered(probe) ==
    IF probe.type.v[1] \in {"monitor", "counter"} THEN HookList(probe) ELSE StructuralEvents

\* the calls of _addEventToHooks made while the table of the admitted probes
\* is built: the table given, the event and the kind
Registrations ==
    UNION { LET before == BuildHooksList(SubSeq(probes, 1, i - 1))
                events == Registered(probes[i])
                kind == probes[i].type.v[1] IN
            { [hooks |-> AddEvents(before, SubSeq(events, 1, j - 1), 1, kind),
               event |-> events[j],
               probeType |-> kind] : j \in 1..Len(events) }
          : i \in 1..Len(probes) }

\* C28: every call of _addEventToHooks leaves the hooks object it was given
\* as it was.
C28_GivenHooksUnchanged ==
    \A call \in Registrations :
        GivenHooks(call.hooks, call.event, call.probeType) = call.hooks

====
